---------------------------- MODULE Spec2Model ----------------------------
(***************************************************************************)
(* A model of scri/utilities.py: the XOR delta codec (xor_timeseries,      *)
(* xor_timeseries_reverse), the Fletcher-32 checksum (fletcher32) and the  *)
(* smooth window kernels (transition_function, its derivative,             *)
(* bump_function, transition_to_constant).                                 *)
(*                                                                         *)
(* Arrays are functions over 0..n-1, as in the source.  A 32-bit unsigned  *)
(* value is a pair <<hi, lo>> of 16-bit limbs (value = hi*65536 + lo),     *)
(* because the accumulators of fletcher32 pass 2^31.                       *)
(***************************************************************************)
EXTENDS Integers, Sequences, FiniteSets, TLC

VARIABLES
    \* ---- xor_timeseries / xor_timeseries_reverse
    S,          \* the series handed to the first call
    entry,      \* the array as it was when the running call was entered
    u,          \* c.view(np.uint64): the array being transformed in place
    rng,        \* the indices the for loop still has to visit
    fn,         \* the function that is running or ran last
    calls,      \* the calls still to be made on the array
    xpc,        \* "idle" | "loop" | "off"
    \* ---- fletcher32
    buf,        \* the buffer of the first call
    flip,       \* the bit flipped in the buffer between the two calls
    callno,     \* 1 | 2
    j, i, block_length, size,
    c0, c1,     \* the 32-bit accumulators
    c0_wide, c1_wide,   \* the last sums before they were stored in 32 bits
    sum0, sum1, \* the sums of the halfwords and of the prefix sums, unreduced
    rets,       \* the values returned so far
    fpc,        \* "call" | "while" | "for" | "return" | "done" | "off"
    \* ---- window kernels
    call,       \* the function called, "idle" before the call
    args,       \* its arguments
    ret         \* what it returned

xvars == <<S, entry, u, rng, fn, calls, xpc>>
fvars == <<buf, flip, callno, j, i, block_length, size, c0, c1,
           c0_wide, c1_wide, sum0, sum1, rets, fpc>>
wvars == <<call, args, ret>>
vars == <<xvars, fvars, wvars>>

Min(a, b) == IF a < b THEN a ELSE b

(***************************************************************************)
(* Bounds of the model.                                                    *)
(***************************************************************************)
WordBits == 2      \* width of a word of the time series (64 in the source)
MaxLen == 3        \* longest time series
MaxSmall == 2      \* longest buffer whose halfwords are all enumerated
MaxBlocks == 2     \* the long buffers hold up to this many full blocks

(***************************************************************************)
(* Bitwise operators, bit by bit.                                          *)
(***************************************************************************)
RECURSIVE bitwise_or(_, _)
bitwise_or(a, b) ==
    IF a = 0 /\ b = 0 THEN 0
    ELSE (IF a % 2 = 1 \/ b % 2 = 1 THEN 1 ELSE 0)
         + 2 * bitwise_or(a \div 2, b \div 2)

RECURSIVE bitwise_xor(_, _)
bitwise_xor(a, b) ==
    IF a = 0 /\ b = 0 THEN 0
    ELSE (((a % 2) + (b % 2)) % 2) + 2 * bitwise_xor(a \div 2, b \div 2)

(***************************************************************************)
(* xor_timeseries and xor_timeseries_reverse.  A row of the series is one  *)
(* word of WordBits bits; the source's rows are arrays of 64-bit words,    *)
(* which np.bitwise_xor combines lane by lane.                             *)
(***************************************************************************)
Words == 0 .. (2^WordBits - 1)
Series == UNION {[0 .. (n - 1) -> Words] : n \in 1 .. MaxLen}
Shape0(a) == Cardinality(DOMAIN a)

\* the loop of xor_timeseries walking forward instead of backward
xor_range_forward(n) == [k \in 1 .. (n - 1) |-> k]

\* the loop of xor_timeseries_reverse walking backward, like xor_timeseries
xor_reverse_range_backward(n) == [k \in 1 .. (n - 1) |-> n - k]

\* range(u.shape[0]-1, 0, -1): n-1, n-2, ..., 1
xor_range(n) == [k \in 1 .. (n - 1) |-> n - k]

\* range(1, u.shape[0]): 1, 2, ..., n-1
xor_reverse_range(n) == [k \in 1 .. (n - 1) |-> k]

\* u[i] = np.bitwise_xor(u[i-1], u[i])
xor_assign(a, k) == [a EXCEPT ![k] = bitwise_xor(a[k - 1], a[k])]

XorPlans == {<<"xor_timeseries", "xor_timeseries_reverse">>,
             <<"xor_timeseries_reverse", "xor_timeseries">>}

FletcherOff ==
    /\ buf = [size |-> 0, lead |-> 0, pivot |-> 0, pivotPos |-> 0, fill |-> 0]
    /\ flip = [pos |-> -1, bit |-> 0]
    /\ callno = 0 /\ j = 0 /\ i = 0 /\ block_length = 0 /\ size = 0
    /\ c0 = <<0, 0>> /\ c1 = <<0, 0>>
    /\ c0_wide = <<0, 0>> /\ c1_wide = <<0, 0>>
    /\ sum0 = <<0, 0>> /\ sum1 = <<0, 0>>
    /\ rets = <<>> /\ fpc = "off"

XorOff ==
    /\ S = <<>> /\ entry = <<>> /\ u = <<>> /\ rng = <<>>
    /\ fn = "none" /\ calls = <<>> /\ xpc = "off"

WindowOff ==
    /\ call = "off" /\ args = <<>> /\ ret = <<>>

InitXor ==
    /\ S \in Series
    /\ entry = S /\ u = S /\ rng = <<>> /\ fn = "none"
    /\ calls \in XorPlans
    /\ xpc = "idle"
    /\ FletcherOff /\ WindowOff

\* the call: u = c.view(np.uint64), and the for loop's range is fixed
XorCall ==
    /\ xpc = "idle" /\ calls # <<>>
    /\ fn' = Head(calls)
    /\ calls' = Tail(calls)
    /\ entry' = u
    /\ rng' = IF Head(calls) = "xor_timeseries"
              THEN xor_range(Shape0(u)) ELSE xor_reverse_range(Shape0(u))
    /\ xpc' = "loop"
    /\ UNCHANGED <<S, u, fvars, wvars>>

\* xor_timeseries: one iteration of  for i in range(u.shape[0]-1, 0, -1)
xor_timeseries_loop ==
    /\ xpc = "loop" /\ fn = "xor_timeseries" /\ rng # <<>>
    /\ u' = xor_assign(u, Head(rng))
    /\ rng' = Tail(rng)
    /\ UNCHANGED <<S, entry, fn, calls, xpc, fvars, wvars>>

\* xor_timeseries_reverse: one iteration of  for i in range(1, u.shape[0])
xor_timeseries_reverse_loop ==
    /\ xpc = "loop" /\ fn = "xor_timeseries_reverse" /\ rng # <<>>
    /\ u' = xor_assign(u, Head(rng))
    /\ rng' = Tail(rng)
    /\ UNCHANGED <<S, entry, fn, calls, xpc, fvars, wvars>>

\* return c
XorReturn ==
    /\ xpc = "loop" /\ rng = <<>>
    /\ xpc' = "idle"
    /\ UNCHANGED <<S, entry, u, rng, fn, calls, fvars, wvars>>

NextXor ==
    XorCall \/ xor_timeseries_loop \/ xor_timeseries_reverse_loop \/ XorReturn

SpecXor == InitXor /\ [][NextXor]_vars

(***************************************************************************)
(* fletcher32.                                                             *)
(***************************************************************************)
\* a block one halfword longer
block_size_plus_one == 360 + 1

block_size == 360
modulus == 65535
Limb == 2^16           \* one limb of a 32-bit value

U32(n) == <<n \div Limb, n % Limb>>

\* a + b before it is cut to 32 bits: the high limb may pass 2^16
add_wide(a, b) ==
    LET lo == a[2] + b[2]
    IN  <<a[1] + b[1] + (lo \div Limb), lo % Limb>>

\* the 32 bits a np.uint32 keeps
trunc32(w) == <<w[1] % Limb, w[2]>>

\* (hi*65536 + lo) % 65535: as 65536 = 65535 + 1, this is (hi + lo) % 65535
wide_mod(w) == (w[1] + w[2]) % modulus

\* the reduction taken modulo 2^16 instead of 65535
reduce_mod_65536(c) == <<0, c[2]>>

\* c %= np.uint32(65535)
reduce(c) == U32(wide_mod(c))

\* the two additions in the other order: c1 += c0; c0 += data[j]
accumulate_swapped(a0, a1, d) ==
    <<add_wide(a0, U32(d)), add_wide(a1, a0)>>

\* c0 += data[j]; c1 += c0   (the sums before they are stored)
accumulate(a0, a1, d) ==
    LET w0 == add_wide(a0, U32(d))
    IN  <<w0, add_wide(a1, trunc32(w0))>>

\* reading data at the inner loop's own index
data_index_inner(ii, jj) == ii

\* the index at which the inner loop reads data
data_index(ii, jj) == jj

\* c1 << np.uint32(16), in 32 bits
shl16(a) == <<a[2], 0>>

or32(a, b) == <<bitwise_or(a[1], b[1]), bitwise_or(a[2], b[2])>>

\* return (c1 << np.uint32(16) | c0)
checksum(a0, a1) == or32(shl16(a1), a0)

\* the accumulators at the start of a call
c_init == <<0, 0>>

\* the halfword d with bit b flipped
FlipBit(d, b) == IF (d \div 2^b) % 2 = 1 THEN d - 2^b ELSE d + 2^b

\* A buffer is `lead` before pivotPos, `pivot` at pivotPos and `fill` after it.
BufAt(b, k) ==
    IF k < b.pivotPos THEN b.lead
    ELSE IF k = b.pivotPos THEN b.pivot ELSE b.fill

\* data.reshape((data.size,)).view(np.uint16)[k] in call n
data(n, k) ==
    IF n = 2 /\ k = flip.pos THEN FlipBit(BufAt(buf, k), flip.bit)
    ELSE BufAt(buf, k)

Halfwords == {0, 1, 32768, 65534, 65535}
Bits == 0 .. 15

SmallBufs ==
    {[size |-> 0, lead |-> 0, pivot |-> 0, pivotPos |-> 0, fill |-> 0]}
    \cup
    {[size |-> n, lead |-> a, pivot |-> p, pivotPos |-> n - 1, fill |-> 0] :
        n \in 1 .. MaxSmall, a \in Halfwords, p \in Halfwords}

\* long buffers: zeros, then one halfword ending the first block, then 0xFFFF
LongSizes ==
    UNION {{k * block_size, k * block_size + k} : k \in 1 .. MaxBlocks}

LongBufs ==
    {[size |-> n, lead |-> 0, pivot |-> p, pivotPos |-> block_size - 1,
      fill |-> 65535] : n \in LongSizes, p \in {65534, 65535}}

NoFlip == [pos |-> -1, bit |-> 0]

Flips(b) ==
    {NoFlip} \cup
    IF b.size <= MaxSmall
    THEN {[pos |-> p, bit |-> k] : p \in 0 .. (b.size - 1), k \in Bits}
    ELSE {[pos |-> p, bit |-> k] : p \in {0, b.size - 1}, k \in {0, 15}}

InitFletcher ==
    /\ buf \in SmallBufs \cup LongBufs
    /\ flip \in Flips(buf)
    /\ callno = 1 /\ j = 0 /\ i = 0 /\ block_length = 0 /\ size = 0
    /\ c0 = <<0, 0>> /\ c1 = <<0, 0>>
    /\ c0_wide = <<0, 0>> /\ c1_wide = <<0, 0>>
    /\ sum0 = <<0, 0>> /\ sum1 = <<0, 0>>
    /\ rets = <<>> /\ fpc = "call"
    /\ XorOff /\ WindowOff

\* lines 245-250: the view, size, c0 = c1 = 0, j = 0
fletcher32_enter ==
    /\ fpc = "call"
    /\ size' = buf.size
    /\ c0' = c_init /\ c1' = c_init
    /\ c0_wide' = c_init /\ c1_wide' = c_init
    /\ sum0' = <<0, 0>> /\ sum1' = <<0, 0>>
    /\ j' = 0 /\ i' = 0 /\ block_length' = 0
    /\ fpc' = "while"
    /\ UNCHANGED <<buf, flip, callno, rets, xvars, wvars>>

\* while j < size: block_length = min(block_size, size-j)
fletcher32_while ==
    /\ fpc = "while" /\ j < size
    /\ block_length' = Min(block_size, size - j)
    /\ i' = 0
    /\ fpc' = "for"
    /\ UNCHANGED <<buf, flip, callno, j, size, c0, c1, c0_wide, c1_wide,
                   sum0, sum1, rets, xvars, wvars>>

\* for i in range(block_length): c0 += data[j]; c1 += c0; j += 1
fletcher32_for ==
    /\ fpc = "for" /\ i < block_length
    /\ LET d == data(callno, data_index(i, j))
           w == accumulate(c0, c1, d)
       IN  /\ c0_wide' = w[1] /\ c1_wide' = w[2]
           /\ c0' = trunc32(w[1]) /\ c1' = trunc32(w[2])
           /\ sum0' = add_wide(sum0, U32(data(callno, j)))
           /\ sum1' = add_wide(sum1, add_wide(sum0, U32(data(callno, j))))
    /\ j' = j + 1
    /\ i' = i + 1
    /\ UNCHANGED <<buf, flip, callno, block_length, size, rets, fpc,
                   xvars, wvars>>

\* after the block: c0 %= np.uint32(65535); c1 %= np.uint32(65535)
fletcher32_reduce ==
    /\ fpc = "for" /\ i >= block_length
    /\ c0' = reduce(c0) /\ c1' = reduce(c1)
    /\ fpc' = "while"
    /\ UNCHANGED <<buf, flip, callno, j, i, block_length, size,
                   c0_wide, c1_wide, sum0, sum1, rets, xvars, wvars>>

\* return (c1 << np.uint32(16) | c0); the second call follows the first
fletcher32_return ==
    /\ fpc = "while" /\ j >= size
    /\ rets' = Append(rets, checksum(c0, c1))
    /\ IF callno = 1
       THEN callno' = 2 /\ fpc' = "call"
       ELSE callno' = callno /\ fpc' = "done"
    /\ UNCHANGED <<buf, flip, j, i, block_length, size, c0, c1,
                   c0_wide, c1_wide, sum0, sum1, xvars, wvars>>

NextFletcher ==
    \/ fletcher32_enter
    \/ fletcher32_while
    \/ fletcher32_for
    \/ fletcher32_reduce
    \/ fletcher32_return

SpecFletcher == InitFletcher /\ [][NextFletcher]_vars

(***************************************************************************)
(* The window kernels.  Grid coordinates, boundaries and target values are *)
(* integers; a value the code computes with exp is kept as the term it is  *)
(* computed from, so two such values are equal when their arguments are.   *)
(***************************************************************************)
MaxN == 4          \* longest grid
MaxX == 4          \* grid coordinates and boundaries are 0 .. MaxX, and Far
Far == 1000        \* a coordinate far enough for the overflow clamp

\* maxexp = np.finfo(float).maxexp * np.log(2) * 0.99 = 702.68..., as a ratio
maxexp_num == 70268
maxexp_den == 100

RECURSIVE GCD(_, _)
GCD(a, b) == IF b = 0 THEN a ELSE GCD(b, a % b)

\* a float that is a constant of the call
Const(v) ==
    [kind |-> "const", v |-> v, num |-> 0, den |-> 1, ydiff |-> 0,
     scale |-> 1, sub |-> 0]

\* tau = (x[i] - x0) / (x1 - x0); exponent = 1.0/tau - 1.0/(1.0-tau);
\* exponent >= maxexp.  With a = x[i]-x0 and b = x1-x[i] (both positive on a
\* non-decreasing grid) the exponent is (a+b)*(b-a)/(a*b).
exponent_clamped(xi, xa, xb) ==
    LET a == xi - xa
        b == xb - xi
    IN  (a + b) * (b - a) * maxexp_den >= maxexp_num * a * b

\* y0 if exponent >= maxexp, else y0 + ydiff / (1.0 + np.exp(exponent))
kernel(xi, xa, xb, ya, ydiff) ==
    IF exponent_clamped(xi, xa, xb) \/ ydiff = 0 THEN Const(ya)
    ELSE LET g == GCD(xi - xa, xb - xa)
         IN  [kind |-> "sigmoid", v |-> ya, num |-> (xi - xa) \div g,
              den |-> (xb - xa) \div g, ydiff |-> ydiff,
              scale |-> 1, sub |-> 0]

\* 0.0 if exponent >= maxexp, else the analytic derivative at x[i]
kernel_prime(xi, xa, xb, ydiff) ==
    IF exponent_clamped(xi, xa, xb) \/ ydiff = 0 THEN Const(0)
    ELSE [kind |-> "sigmoid_prime", v |-> xb - xa, num |-> xi - xa,
          den |-> xb - xa, ydiff |-> ydiff, scale |-> 1, sub |-> 0]

\* while x[i] < b: i += 1, taken as while x[i] <= b
RECURSIVE scan_lt_as_le(_, _, _)
scan_lt_as_le(x, k, b) ==
    IF k >= Shape0(x) THEN k
    ELSE IF x[k] <= b THEN scan_lt_as_le(x, k + 1, b) ELSE k

\* while x[i] <= b: i += 1, taken as while x[i] < b
RECURSIVE scan_le_as_lt(_, _, _)
scan_le_as_lt(x, k, b) ==
    IF k >= Shape0(x) THEN k
    ELSE IF x[k] < b THEN scan_le_as_lt(x, k + 1, b) ELSE k

\* while x[i] <= b: i += 1   (lines 15, 84, 128, 140), from i = k: the index
\* at which the loop stops.  Shape0(x) says the loop read x past its end.
RECURSIVE scan_le(_, _, _)
scan_le(x, k, b) ==
    IF k >= Shape0(x) THEN k
    ELSE IF x[k] <= b THEN scan_le(x, k + 1, b) ELSE k

\* while x[i] < b: ...; i += 1   (lines 19, 86, 131, 143), likewise
RECURSIVE scan_lt(_, _, _)
scan_lt(x, k, b) ==
    IF k >= Shape0(x) THEN k
    ELSE IF x[k] < b THEN scan_lt(x, k + 1, b) ELSE k

\* The call read x at index len(x): an IndexError, or with bounds checks
\* compiled out a read of whatever lies behind the array.  Nothing is said of
\* what the call then returns.
OutOfBounds(n) ==
    [y |-> <<>>, i0 |-> n, i1 |-> n, oob |-> TRUE, incs |-> n]

_transition_function(x, x0, x1, y0, y1) ==
    LET n == Shape0(x)
        ydiff == y1 - y0
        i0 == scan_le(x, 0, x0)
        i1 == scan_lt(x, i0, x1)
    IN  IF i0 >= n \/ i1 >= n THEN OutOfBounds(n)
        ELSE [y |-> [k \in 0 .. (n - 1) |->
                        IF k < i0 THEN Const(y0)
                        ELSE IF k < i1 THEN kernel(x[k], x0, x1, y0, ydiff)
                        ELSE Const(y1)],
              i0 |-> i0, i1 |-> i1, oob |-> FALSE, incs |-> i1]

\* without return_indices only the array is returned (i0 = i1 = -1 here)
transition_function(x, x0, x1, y0, y1, return_indices) ==
    LET r == _transition_function(x, x0, x1, y0, y1)
    IN  IF return_indices THEN r ELSE [r EXCEPT !.i0 = -1, !.i1 = -1]

transition_function_derivative(x, x0, x1, y0, y1) ==
    LET n == Shape0(x)
        ydiff == y1 - y0
        i0 == scan_le(x, 0, x0)
        i1 == scan_lt(x, i0, x1)
    IN  IF i0 >= n \/ i1 >= n THEN OutOfBounds(n)
        ELSE [y |-> [k \in 0 .. (n - 1) |->
                        IF i0 <= k /\ k < i1
                        THEN kernel_prime(x[k], x0, x1, ydiff)
                        ELSE Const(0)],
              i0 |-> -1, i1 |-> -1, oob |-> FALSE, incs |-> i1]

\* ydiff23 with its operands exchanged
bump_ydiff23_swapped(y12, y3) == y12 - y3

\* ydiff23 = y3-y12
bump_ydiff23(y12, y3) == y3 - y12

bump_function(x, x0, x1, x2, x3, y0, y12, y3) ==
    LET n == Shape0(x)
        ydiff01 == y12 - y0
        ydiff23 == bump_ydiff23(y12, y3)
        ia == scan_le(x, 0, x0)
        i1 == scan_lt(x, ia, x1)
        i2 == scan_le(x, i1, x2)
        i3 == scan_lt(x, i2, x3)
    IN  IF ia >= n \/ i1 >= n \/ i2 >= n \/ i3 >= n THEN OutOfBounds(n)
        ELSE [y |-> [k \in 0 .. (n - 1) |->
                        IF k < ia THEN Const(y0)
                        ELSE IF k < i1 THEN kernel(x[k], x0, x1, y0, ydiff01)
                        ELSE IF k < i2 THEN Const(y12)
                        ELSE IF k < i3 THEN kernel(x[k], x2, x3, y12, ydiff23)
                        ELSE Const(y3)],
              i0 |-> -1, i1 |-> -1, oob |-> FALSE, incs |-> i3]

\* f * w for a float f and a window value w
Mul(fv, w) ==
    IF w.kind = "const" THEN Const(fv * w.v) ELSE [w EXCEPT !.scale = fv]

\* a - s for a value a and a float s of the integrator
Sub(a, s) ==
    IF s = 0 THEN a
    ELSE IF a.kind = "const" THEN Const(a.v - s) ELSE [a EXCEPT !.sub = s]

\* a[k] as Python reads it: a negative k counts from the end
PyIndex(k, n) == IF k < 0 THEN k + n ELSE k

\* the held value taken from index i2 instead of i2-1
hold_index_off_by_one(i2) == i2

\* f_transitioned[i2:] = f_transitioned[i2-1]: the index read
hold_index(i2) == i2 - 1

\* What quaternion.indefinite_integral may return on m samples: m values,
\* the first of them 0.
Integrals(m) ==
    {s \in [0 .. (m - 1) -> {0, 1}] : m > 0 => s[0] = 0}

\* integral: what indefinite_integral returned for the region [i1, i2)
transition_to_constant(f, t, t1, t2, integral) ==
    LET n == Shape0(t)
        r == transition_function(t, t1, t2, 1, 0, TRUE)
        transition_dot == transition_function_derivative(t, t1, t2, 1, 0)
    IN  IF r.oob \/ transition_dot.oob THEN OutOfBounds(n)
        ELSE
        LET i1 == r.i0
            i2 == r.i1
            f_transitioned == [k \in 0 .. (n - 1) |-> Mul(f[k], r.y[k])]
            corrected == [k \in 0 .. (n - 1) |->
                            IF i1 <= k /\ k < i2
                            THEN Sub(f_transitioned[k], integral[k - i1])
                            ELSE f_transitioned[k]]
            held == corrected[PyIndex(hold_index(i2), n)]
        IN  [y |-> [k \in 0 .. (n - 1) |->
                       IF k >= i2 THEN held ELSE corrected[k]],
             i0 |-> i1, i1 |-> i2, oob |-> FALSE, incs |-> r.incs]

GridVals == (0 .. MaxX) \cup {Far}
Grids ==
    {g \in UNION {[0 .. (n - 1) -> GridVals] : n \in 1 .. MaxN} :
        \A k \in 1 .. (Shape0(g) - 1) : g[k - 1] <= g[k]}
Signals(n) == {[k \in 0 .. (n - 1) |-> k + 2], [k \in 0 .. (n - 1) |-> 3]}
Targets2 == {<<0, 1>>, <<5, 2>>}
Targets3 == {<<0, 1, 0>>}

NoArgs ==
    [x |-> <<>>, x0 |-> 0, x1 |-> 0, x2 |-> 0, x3 |-> 0, yv |-> <<>>,
     f |-> <<>>, integral |-> <<>>, return_indices |-> FALSE]

InitWindow ==
    /\ call = "idle"
    /\ \E x \in Grids : args = [NoArgs EXCEPT !.x = x]
    /\ ret = OutOfBounds(0)
    /\ XorOff /\ FletcherOff

Call_transition_function ==
    /\ call = "idle"
    /\ \E x0 \in GridVals, x1 \in GridVals, yv \in Targets2, ri \in BOOLEAN :
          /\ x0 <= x1
          /\ args' = [args EXCEPT !.x0 = x0, !.x1 = x1,
                                  !.yv = yv, !.return_indices = ri]
          /\ ret' = transition_function(args.x, x0, x1, yv[1], yv[2], ri)
    /\ call' = "transition_function"
    /\ UNCHANGED <<xvars, fvars>>

Call_transition_function_derivative ==
    /\ call = "idle"
    /\ \E x0 \in GridVals, x1 \in GridVals, yv \in Targets2 :
          /\ x0 <= x1
          /\ args' = [args EXCEPT !.x0 = x0, !.x1 = x1, !.yv = yv]
          /\ ret' = transition_function_derivative(args.x, x0, x1,
                                                   yv[1], yv[2])
    /\ call' = "transition_function_derivative"
    /\ UNCHANGED <<xvars, fvars>>

Call_bump_function ==
    /\ call = "idle"
    /\ \E x0 \in GridVals, x1 \in GridVals, x2 \in GridVals,
          x3 \in GridVals, yv \in Targets3 :
          /\ x0 <= x1 /\ x1 <= x2 /\ x2 <= x3
          /\ args' = [args EXCEPT !.x0 = x0, !.x1 = x1,
                                  !.x2 = x2, !.x3 = x3, !.yv = yv]
          /\ ret' = bump_function(args.x, x0, x1, x2, x3,
                                  yv[1], yv[2], yv[3])
    /\ call' = "bump_function"
    /\ UNCHANGED <<xvars, fvars>>

Call_transition_to_constant ==
    /\ call = "idle"
    /\ \E t1 \in GridVals, t2 \in GridVals :
          /\ t1 < t2
          /\ \E f \in Signals(Shape0(args.x)) :
             LET t == args.x
                 r == transition_function(t, t1, t2, 1, 0, TRUE)
             IN  \E integral \in Integrals(IF r.oob THEN 0 ELSE r.i1 - r.i0) :
                    /\ args' = [args EXCEPT !.x0 = t1, !.x1 = t2,
                                            !.f = f, !.integral = integral]
                    /\ ret' = transition_to_constant(f, t, t1, t2, integral)
    /\ call' = "transition_to_constant"
    /\ UNCHANGED <<xvars, fvars>>

NextWindow ==
    \/ Call_transition_function
    \/ Call_transition_function_derivative
    \/ Call_bump_function
    \/ Call_transition_to_constant

SpecWindow == InitWindow /\ [][NextWindow]_vars

(***************************************************************************)
(* The XOR delta codec: C1, C2.                                            *)
(***************************************************************************)
XorBothDone == xpc = "idle" /\ calls = <<>>

\* C1: for every series S of length >= 2, xor_timeseries_reverse after
\* xor_timeseries, and xor_timeseries after xor_timeseries_reverse, leave the
\* array equal to S word for word.
C1_RoundTrip ==
    (XorBothDone /\ Shape0(S) >= 2) => u = S

C1_Witness ==
    /\ XorBothDone /\ Shape0(S) >= 2
    /\ fn = "xor_timeseries_reverse"
    /\ entry # S
    /\ \A k \in 1 .. (Shape0(S) - 1) : entry[k] # S[k]
    /\ u = S

\* C2: while xor_timeseries runs, the row i and its predecessor i-1 that
\* the next iteration reads still hold their values at entry; when it
\* returns, row 0 is unchanged and row k is entry[k] XOR entry[k-1]; on a
\* series of length 1 neither function changes anything.
C2_EncodeResult ==
    /\ (xpc = "loop" /\ fn = "xor_timeseries" /\ rng # <<>>) =>
          /\ u[Head(rng) - 1] = entry[Head(rng) - 1]
          /\ u[Head(rng)] = entry[Head(rng)]
    /\ (xpc = "idle" /\ fn = "xor_timeseries") =>
          /\ u[0] = entry[0]
          /\ \A k \in 1 .. (Shape0(u) - 1) :
                u[k] = bitwise_xor(entry[k], entry[k - 1])
    /\ (xpc # "off" /\ Shape0(S) = 1) => u = S

C2_Witness ==
    /\ xpc = "idle" /\ fn = "xor_timeseries"
    /\ Shape0(u) = MaxLen
    /\ \A k \in 1 .. (Shape0(u) - 1) :
          u[k] # entry[k] /\ u[k] = bitwise_xor(entry[k], entry[k - 1])

(***************************************************************************)
(* fletcher32: C3, C4, C9, C10.                                            *)
(***************************************************************************)
ToInt(a) == a[1] * Limb + a[2]
Returned(n) == Len(rets) >= n

\* the accumulators are 65534 at the start of a block of block_size
\* halfwords 0xFFFF, and the block has been summed
C3_WorstBlock ==
    /\ fpc = "for" /\ i = block_size /\ block_length = block_size
    /\ c0_wide = U32(65534 + block_size * 65535)
    /\ buf.pivot = 65534

\* C3: no sum in c0 or c1 ever passes 2^32 - 1 (its high limb stays below
\* 2^16), so storing it in 32 bits loses nothing; and a block cannot be
\* longer: after the worst block of 360, one more halfword 0xFFFF before the
\* reduction would carry c1 past 2^32 - 1.
C3_NoOverflow ==
    /\ c0_wide[1] < Limb /\ c1_wide[1] < Limb
    /\ c0 = c0_wide \/ c0 = reduce(c0_wide)
    /\ c1 = c1_wide \/ c1 = reduce(c1_wide)
    /\ C3_WorstBlock => accumulate(c0, c1, 65535)[2][1] >= Limb

\* the largest sum there is: 65534 + 360*65534 + 65535*(360*361/2)
\* = 4282122074 = 65339 * 65536 + 65370, at the end of a full second block
C3_Witness ==
    /\ C3_WorstBlock /\ j = 2 * block_size
    /\ c1_wide = <<65339, 65370>>
    /\ c1 = c1_wide

\* C4: the empty buffer gives 0, and the buffer of the one halfword 0x0001
\* gives 0x00010001.
C4_SmallestBuffers ==
    Returned(1) =>
        /\ buf.size = 0 => ToInt(rets[1]) = 0
        /\ (buf.size = 1 /\ buf.pivot = 1) => ToInt(rets[1]) = 65537

C4_Witness ==
    /\ Returned(1) /\ buf.size = 1 /\ buf.pivot = 1
    /\ rets[1] = <<1, 1>>

\* C9: the value returned is ((C1 mod 65535) << 16) | (C0 mod 65535), C0 the
\* unreduced sum of the halfwords and C1 the unreduced sum of the prefix sums.
C9_BlockIndependence ==
    (fpc = "done" \/ (fpc = "call" /\ callno = 2)) =>
        rets[Len(rets)] = <<wide_mod(sum1), wide_mod(sum0)>>

C9_Witness ==
    /\ fpc = "done" /\ size = MaxBlocks * block_size + MaxBlocks
    /\ rets[2] = <<wide_mod(sum1), wide_mod(sum0)>>
    /\ wide_mod(sum1) # 0 /\ wide_mod(sum0) # 0
    /\ sum1[1] >= Limb

\* C10: with one bit of a non-empty buffer flipped the second call returns
\* another value than the first, and with the same buffer the same value.
C10_BitFlip ==
    fpc = "done" =>
        /\ flip.pos >= 0 => rets[1] # rets[2]
        /\ flip.pos < 0 => rets[1] = rets[2]

C10_Witness ==
    /\ fpc = "done" /\ flip.pos = size - 1 /\ size > block_size
    /\ flip.bit = 15
    /\ rets[1] # rets[2]

(***************************************************************************)
(* The window kernels: C5, C6, C7, C8.                                     *)
(***************************************************************************)
Idx(x) == 0 .. (Shape0(x) - 1)
LastOf(x) == x[Shape0(x) - 1]

\* k is the first index of x at which P holds
FirstWith(x, k, P(_)) ==
    /\ k \in Idx(x) /\ P(x[k])
    /\ \A m \in 0 .. (k - 1) : ~P(x[m])

\* C5: transition_function with return_indices=True on a non-decreasing
\* grid with a sample >= x1, x0 < x1: y[k] = y0 where x[k] <= x0, y[k] = y1
\* where x[k] >= x1; i0 is the first index with x > x0, i1 the first with
\* x >= x1, and the k with x0 < x[k] < x1 are exactly i0 .. i1-1.
C5_Transition ==
    (/\ call = "transition_function" /\ args.return_indices
     /\ args.x0 < args.x1
     /\ \E k \in Idx(args.x) : args.x[k] >= args.x1)
    =>
    LET x == args.x
        AboveX0(v) == v > args.x0
        ReachedX1(v) == v >= args.x1
    IN  /\ ~ret.oob
        /\ \A k \in Idx(x) :
              /\ x[k] <= args.x0 => ret.y[k] = Const(args.yv[1])
              /\ x[k] >= args.x1 => ret.y[k] = Const(args.yv[2])
        /\ FirstWith(x, ret.i0, AboveX0)
        /\ FirstWith(x, ret.i1, ReachedX1)
        /\ {k \in Idx(x) : args.x0 < x[k] /\ x[k] < args.x1}
              = ret.i0 .. (ret.i1 - 1)

C5_Witness ==
    /\ call = "transition_function" /\ args.return_indices
    /\ args.x0 < args.x1 /\ ~ret.oob
    /\ args.yv = <<5, 2>>
    /\ 0 < ret.i0 /\ ret.i0 + 1 < ret.i1
    /\ args.x[ret.i0 - 1] = args.x0
    /\ ret.y[ret.i0].kind = "const" /\ ret.y[ret.i0 + 1].kind = "sigmoid"

\* the bump of C6 and the two transitions it is compared with
C6_Decomposes ==
    LET x == args.x
        rise == transition_function(x, args.x0, args.x1, 0, 1, FALSE)
        fall == transition_function(x, args.x2, args.x3, 1, 0, FALSE)
    IN  /\ ~rise.oob /\ ~fall.oob
        /\ \A k \in Idx(x) :
              /\ x[k] < args.x2 => ret.y[k] = rise.y[k]
              /\ x[k] >= args.x1 => ret.y[k] = fall.y[k]
              /\ (args.x1 <= x[k] /\ x[k] <= args.x2) => ret.y[k] = Const(1)

C6_BumpCall == call = "bump_function" /\ args.yv = <<0, 1, 0>> /\ ~ret.oob

\* C6 as claimed: for x0 <= x1 <= x2 <= x3, bump_function(x,x0,x1,x2,x3,0,1,0),
\* on a grid whose boundary scans all end inside it, equals
\* transition_function(x,x0,x1,0,1) wherever x < x2, equals
\* transition_function(x,x2,x3,1,0) wherever x >= x1, and is exactly 1
\* wherever x1 <= x <= x2.
C6_BumpDecomposition_AsClaimed == C6_BumpCall => C6_Decomposes

\* C6 amended: the same for x0 < x1 <= x2 <= x3.
C6_BumpDecomposition == (C6_BumpCall /\ args.x0 < args.x1) => C6_Decomposes

C6_Witness ==
    /\ call = "bump_function" /\ args.yv = <<0, 1, 0>> /\ ~ret.oob
    /\ Shape0(args.x) = 4
    /\ ret.y[0].kind = "sigmoid" /\ ret.y[0].ydiff = 1
    /\ ret.y[1] = Const(1)
    /\ ret.y[2].kind = "sigmoid" /\ ret.y[2].ydiff = -1
    /\ ret.y[3] = Const(0)

\* C7: transition_to_constant on a non-decreasing grid t, t1 < t2 (whatever
\* the integrator returned, its first value being 0), when it returns: the
\* output is f[k] wherever t[k] <= t1, and every output entry with
\* t[k] >= t2 equals the output entry at index i2-1 (read as Python reads
\* it), i2 the first index with t >= t2; so they equal one another.
C7_TransitionToConstant ==
    (call = "transition_to_constant" /\ ~ret.oob)
    =>
    LET t == args.x
        i2 == CHOOSE k \in Idx(t) :
                 t[k] >= args.x1 /\ \A m \in 0 .. (k - 1) : t[m] < args.x1
    IN  /\ \A k \in Idx(t) : t[k] <= args.x0 => ret.y[k] = Const(args.f[k])
        /\ \A k \in Idx(t) :
              t[k] >= args.x1
                 => ret.y[k] = ret.y[PyIndex(i2 - 1, Shape0(t))]
        /\ \A k \in Idx(t), m \in Idx(t) :
              (t[k] >= args.x1 /\ t[m] >= args.x1) => ret.y[k] = ret.y[m]

C7_Witness ==
    /\ call = "transition_to_constant" /\ ~ret.oob
    /\ Shape0(args.x) = 4 /\ ret.i0 = 1 /\ ret.i1 = 2
    /\ args.f = [k \in 0 .. 3 |-> k + 2]
    /\ ret.y[0] = Const(2)
    /\ ret.y[1].kind = "sigmoid" /\ ret.y[1].scale = 3
    /\ ret.y[2] = ret.y[1] /\ ret.y[3] = ret.y[1]

\* the boundaries lie in the closed range of the grid, in order
C8_InRange ==
    LET x == args.x
    IN  /\ Shape0(x) >= 1
        /\ x[0] <= args.x0 /\ args.x0 <= args.x1
        /\ IF call = "bump_function"
           THEN args.x1 <= args.x2 /\ args.x2 <= args.x3
                /\ args.x3 <= LastOf(x)
           ELSE args.x1 <= LastOf(x)
        /\ call = "transition_function" => args.x0 < args.x1

C8_ScanCall ==
    call \in {"transition_function", "transition_function_derivative",
              "bump_function"}

\* C8 as claimed: with the boundaries in the closed range of the grid, no
\* scan reads x at an index >= n and the call makes at most n increments.
\* (x0 < x1 is asked of transition_function and, reading the claim in its
\* favour, of transition_function_derivative too.)
C8_BoundedScan_AsClaimed ==
    (/\ C8_ScanCall /\ C8_InRange
     /\ call = "transition_function_derivative" => args.x0 < args.x1)
    => (~ret.oob /\ ret.incs <= Shape0(args.x))

\* C8 amended: the same, when moreover the last sample lies strictly above
\* the boundary of each <= scan: above x0 (transition_function and its
\* derivative), above x2 (bump_function).
C8_BoundedScan ==
    (/\ C8_ScanCall /\ C8_InRange
     /\ LastOf(args.x) > (IF call = "bump_function" THEN args.x2 ELSE args.x0))
    => (~ret.oob /\ ret.incs <= Shape0(args.x))

C8_Witness ==
    /\ call = "bump_function" /\ C8_InRange
    /\ Shape0(args.x) = 4
    /\ args.x[0] = args.x0 /\ LastOf(args.x) = args.x3
    /\ args.x0 < args.x1 /\ args.x1 < args.x2 /\ args.x2 < args.x3
    /\ ~ret.oob /\ ret.incs = 3

=============================================================================
